---- MODULE Spec2Model ----
(***************************************************************************)
(* Model of the Customer Management API server (customer_server.js).       *)
(*                                                                         *)
(* The state is the in-memory database of the server: the ordered array    *)
(* `customers` and the counter `customerCounter`.  Each route handler is   *)
(* one action; a handler runs to completion (Node's single-threaded event  *)
(* loop, no await inside a handler).                                       *)
(*                                                                         *)
(* JSON strings are modelled as sequences of one-character strings, so     *)
(* that the empty string, case-sensitive comparison and id formatting are  *)
(* what the code makes of them.  null and a missing key (undefined) are    *)
(* two reserved one-token sequences.                                       *)
(***************************************************************************)
EXTENDS Integers, Sequences, FiniteSets, TLC

VARIABLES customers, customerCounter, now, req, res, allocated, handled, removed,
          inflight

vars == <<customers, customerCounter, now, req, res, allocated, handled, removed,
          inflight>>

(* ------------------------------ bounds --------------------------------- *)

\* Largest reading of the millisecond clock.
MaxClock == 1

\* Largest number of successful creates.
MaxCreates == 2

\* Largest number of requests the server handles.
MaxRequests == 4

\* Number of client connections that can have a request in flight at once.
MaxConns == 2

\* Largest number of requests the server handles when requests overlap.
MaxOverlap == 3

(* ------------------------- JSON values --------------------------------- *)

\* JSON null.
Null == <<"null">>

\* A key that is not in the object (JavaScript undefined).
Absent == <<"undefined">>

\* Truthiness that takes the empty string for a value.
TruthyEmptyOk(v) == v # Absent /\ v # Null

\* JavaScript truthiness of a string / null / undefined value.
Truthy(v) == v # Absent /\ v # Null /\ v # <<>>

\* The `x || null` idiom of the create handler.
OrNull(v) == IF Truthy(v) THEN v ELSE Null

DigitChars == <<"0", "1", "2", "3", "4", "5", "6", "7", "8", "9">>

\* Decimal formatting of a natural number by a template literal.
RECURSIVE Dec(_)
Dec(n) == IF n < 10 THEN <<DigitChars[n + 1]>>
          ELSE Dec(n \div 10) \o <<DigitChars[(n % 10) + 1]>>

\* Value of a decimal digit character (0 for any other character).
DigitVal(c) == IF \E d \in 1..10 : DigitChars[d] = c
               THEN (CHOOSE d \in 1..10 : DigitChars[d] = c) - 1
               ELSE 0

\* Date.prototype.toISOString: fixed-width, zero-padded fields.  Only the
\* millisecond field ".sssZ" varies within the modelled time span.
toISOString(t) ==
    <<".", DigitChars[((t \div 100) % 10) + 1], DigitChars[((t \div 10) % 10) + 1],
      DigitChars[(t % 10) + 1], "Z">>

\* The instant denoted by an ISO string produced by toISOString.
ParseISO(s) == 100 * DigitVal(s[2]) + 10 * DigitVal(s[3]) + DigitVal(s[4])

\* The id built by the create handler: `CUST-${Date.now()}-${customerCounter++}`.
MakeId(ts, counter) == <<"C", "U", "S", "T", "-">> \o Dec(ts) \o <<"-">> \o Dec(counter)

\* The id used by the tests for a customer that does not exist.
FakeId == <<"F", "A", "K", "E", "-", "I", "D">>

(* --------------------------- request bodies ---------------------------- *)

Keys == {"id", "name", "email", "phone", "address", "company", "status",
         "createdAt", "updatedAt"}

EmptyBody == [id |-> Absent, name |-> Absent, email |-> Absent, phone |-> Absent,
              address |-> Absent, company |-> Absent, status |-> Absent,
              createdAt |-> Absent, updatedAt |-> Absent]

Al == <<"A", "l">>
Bo == <<"B", "o">>
MailLower == <<"a", "@", "x">>
MailUpper == <<"A", "@", "x">>
Inactive == <<"i", "n", "a", "c", "t", "i", "v", "e">>
Active == <<"a", "c", "t", "i", "v", "e">>

\* A timestamp later than every reading of the modelled clock.
LateStamp == toISOString(999)

\* The JSON bodies a client sends with POST and PUT.
Bodies ==
    { [EmptyBody EXCEPT !.name = Al, !.email = MailLower, !.phone = <<"1">>,
                        !.address = <<"S", "t">>, !.company = <<"C", "o">>,
                        !.status = Inactive],
      [EmptyBody EXCEPT !.name = Bo, !.email = MailUpper, !.phone = <<>>],
      [EmptyBody EXCEPT !.name = Bo],
      [EmptyBody EXCEPT !.name = <<>>, !.email = MailLower],
      [EmptyBody EXCEPT !.email = <<>>],
      [EmptyBody EXCEPT !.id = MakeId(0, 1), !.createdAt = LateStamp,
                        !.updatedAt = LateStamp],
      [EmptyBody EXCEPT !.name = Null, !.company = Null, !.status = Inactive] }

\* The status values a client asks for.
Statuses == {Active, Inactive}

\* The search queries a client sends: a lower-case prefix of a name and an
\* upper-case letter that names and companies hold in lower case.
Queries == {<<"a", "l">>, <<"O">>}

(* ------------------------------ lookups -------------------------------- *)

\* A lookup that falls back on the last element when no id matches (the -1
\* of findIndex used as an index from the end).
FindIndexByIdOrLast(cs, id) ==
    IF \E i \in 1..Len(cs) : cs[i].id = id
    THEN CHOOSE i \in 1..Len(cs) :
            cs[i].id = id /\ \A j \in 1..(i - 1) : cs[j].id # id
    ELSE Len(cs)

\* Array.prototype.findIndex(cust => cust.id === id); 0 stands for -1.
FindIndexById(cs, id) ==
    IF \E i \in 1..Len(cs) : cs[i].id = id
    THEN CHOOSE i \in 1..Len(cs) :
            cs[i].id = id /\ \A j \in 1..(i - 1) : cs[j].id # id
    ELSE 0

UpperChars == <<"A", "B", "C", "D", "E", "F", "G", "H", "I", "J", "K", "L", "M",
                "N", "O", "P", "Q", "R", "S", "T", "U", "V", "W", "X", "Y", "Z">>
LowerChars == <<"a", "b", "c", "d", "e", "f", "g", "h", "i", "j", "k", "l", "m",
                "n", "o", "p", "q", "r", "s", "t", "u", "v", "w", "x", "y", "z">>

\* String.prototype.toLowerCase.
toLowerCase(s) ==
    [i \in 1..Len(s) |->
        IF \E k \in 1..26 : UpperChars[k] = s[i]
        THEN LowerChars[CHOOSE k \in 1..26 : UpperChars[k] = s[i]]
        ELSE s[i]]

\* Email comparison that ignores case.
EmailEqIgnoreCase(a, b) == toLowerCase(a) = toLowerCase(b)

\* Strict equality of two email values, as `===` on strings.
EmailEq(a, b) == a = b

\* A uniqueness check that finds no record, as one that had looked at the
\* store before the creates ahead of it were stored.
FindIndexByEmailMissed(cs, email) == 0

\* customers.find(cust => cust.email === email) of the create handler;
\* 0 stands for undefined.
FindIndexByEmail(cs, email) ==
    IF \E i \in 1..Len(cs) : EmailEq(cs[i].email, email)
    THEN CHOOSE i \in 1..Len(cs) :
            EmailEq(cs[i].email, email)
            /\ \A j \in 1..(i - 1) : ~EmailEq(cs[j].email, email)
    ELSE 0

\* customers.find(cust => cust.email === email && cust.id !== id) of the
\* update handler; 0 stands for undefined.
FindOtherByEmail(cs, email, id) ==
    LET hit(i) == cs[i].email = email /\ cs[i].id # id
    IN  IF \E i \in 1..Len(cs) : hit(i)
        THEN CHOOSE i \in 1..Len(cs) : hit(i) /\ \A j \in 1..(i - 1) : ~hit(j)
        ELSE 0

(* ----------------------------- responses ------------------------------- *)

\* The `count` member of a response that has none.
NoCount == -1

\* A response: HTTP status, the `customer` member (a sequence holding the
\* record, or empty when the member is missing), `existingCustomerId` and
\* `requestedId` (Absent when the member is missing).  The members of the
\* list responses (`data`, `count` and the echoed `status` or `query`) are
\* missing.
Response(status, customer, existingId, requestedId) ==
    [status |-> status, customer |-> customer,
     existingCustomerId |-> existingId, requestedId |-> requestedId,
     data |-> <<>>, count |-> NoCount, echo |-> Absent]

\* A list response: 200 with `data`, `count` and, for list-by-status and
\* search, the echoed path parameter.
ListResponse(data, echo) ==
    [status |-> 200, customer |-> <<>>,
     existingCustomerId |-> Absent, requestedId |-> Absent,
     data |-> data, count |-> Len(data), echo |-> echo]

\* The routes of the server.
RouteAll == "/api/customers"
RouteOne == "/api/customers/:id"
RouteStatus == "/api/customers/status/:status"
RouteSearch == "/api/customers/search/:query"
RouteRoot == "/"
RouteUnknown == "*"

\* A request on /api/customers (no id) or /api/customers/:id.
Request(method, id, body) ==
    [method |-> method, route |-> IF id = Absent THEN RouteAll ELSE RouteOne,
     id |-> id, body |-> body, param |-> Absent]

\* A GET on the list-by-status or the search route, with its path parameter.
Query(route, param) ==
    [method |-> "GET", route |-> route, id |-> Absent, body |-> EmptyBody,
     param |-> param]

(* ------------------------------- state --------------------------------- *)

\* The client connections.
Conns == 1..MaxConns

\* A connection with no request on it.
Idle == [req |-> Request("NONE", Absent, EmptyBody), since |-> 0, phase |-> "idle"]

Init ==
    /\ customers = <<>>
    /\ customerCounter = 1
    /\ now = 0
    /\ req = Request("NONE", Absent, EmptyBody)
    /\ res = Response(0, <<>>, Absent, Absent)
    /\ allocated = <<>>
    /\ handled = 0
    /\ removed = 0
    /\ inflight = [c \in Conns |-> Idle]

\* The server takes one more request off the socket and runs its handler
\* before the next one arrives: no request is left in flight.
Accept ==
    /\ handled < MaxRequests
    /\ handled' = handled + 1
    /\ UNCHANGED inflight

\* A counter that is incremented twice.
NextCounterTwice(c) == c + 2

\* A counter that is read but not incremented.
NextCounterStuck(c) == c

\* The value of the counter after `customerCounter++`.
NextCounter(c) == c + 1

\* A create that takes the status from the body when it has one.
NewCustomerBodyStatus(body, counter, t1, t2, t3) ==
    [id |-> MakeId(t1, counter),
     name |-> body.name,
     email |-> body.email,
     phone |-> OrNull(body.phone),
     address |-> OrNull(body.address),
     company |-> OrNull(body.company),
     status |-> IF Truthy(body.status) THEN body.status ELSE Active,
     createdAt |-> toISOString(t2),
     updatedAt |-> toISOString(t3)]

\* The record built by the create handler from the body, with the three
\* clock readings t1 (Date.now()), t2 and t3 (the two new Date()).
NewCustomer(body, counter, t1, t2, t3) ==
    [id |-> MakeId(t1, counter),
     name |-> body.name,
     email |-> body.email,
     phone |-> OrNull(body.phone),
     address |-> OrNull(body.address),
     company |-> OrNull(body.company),
     status |-> Active,
     createdAt |-> toISOString(t2),
     updatedAt |-> toISOString(t3)]

\* The handler of POST /api/customers, run from its first to its last line
\* on the body of one request.
CreateHandler(body) ==
    /\ req' = Request("POST", Absent, body)
    /\ IF ~Truthy(body.name) \/ ~Truthy(body.email)
       THEN /\ res' = Response(400, <<>>, Absent, Absent)
            /\ UNCHANGED <<customers, customerCounter, now, allocated, removed>>
       ELSE LET existing == FindIndexByEmail(customers, body.email)
            IN  IF existing # 0
                THEN /\ res' = Response(409, <<>>, customers[existing].id, Absent)
                     /\ UNCHANGED <<customers, customerCounter, now, allocated, removed>>
                ELSE /\ customerCounter <= MaxCreates
                     /\ \E t1 \in now..MaxClock :
                          \E t2 \in t1..MaxClock :
                            \E t3 \in t2..MaxClock :
                              LET customer == NewCustomer(body, customerCounter,
                                                          t1, t2, t3)
                              IN  /\ customers' = Append(customers, customer)
                                  /\ customerCounter' = NextCounter(customerCounter)
                                  /\ now' = t3
                                  /\ allocated' = Append(allocated, customer.id)
                                  /\ res' = Response(201, <<customer>>, Absent, Absent)
                                  /\ UNCHANGED removed

\* POST /api/customers
Create ==
    \E body \in Bodies :
        /\ Accept
        /\ CreateHandler(body)

\* The ids a client may put in the path of a request: every id the server
\* has handed out or holds, and the id of no customer.
PathIds ==
    {customers[i].id : i \in 1..Len(customers)}
        \cup {allocated[i] : i \in 1..Len(allocated)}
        \cup {FakeId}

\* A merge that takes phone, address and company from the body alone.
SpreadDropOptional(customer, body) ==
    [id |-> IF body.id = Absent THEN customer.id ELSE body.id,
     name |-> IF body.name = Absent THEN customer.name ELSE body.name,
     email |-> IF body.email = Absent THEN customer.email ELSE body.email,
     phone |-> OrNull(body.phone),
     address |-> OrNull(body.address),
     company |-> OrNull(body.company),
     status |-> IF body.status = Absent THEN customer.status ELSE body.status,
     createdAt |-> IF body.createdAt = Absent THEN customer.createdAt
                   ELSE body.createdAt,
     updatedAt |-> IF body.updatedAt = Absent THEN customer.updatedAt
                   ELSE body.updatedAt]

\* Object spread `{...customer, ...body}`: a key of the body replaces the
\* key of the customer, a key the body lacks keeps the customer's value.
Spread(customer, body) ==
    [id |-> IF body.id = Absent THEN customer.id ELSE body.id,
     name |-> IF body.name = Absent THEN customer.name ELSE body.name,
     email |-> IF body.email = Absent THEN customer.email ELSE body.email,
     phone |-> IF body.phone = Absent THEN customer.phone ELSE body.phone,
     address |-> IF body.address = Absent THEN customer.address ELSE body.address,
     company |-> IF body.company = Absent THEN customer.company ELSE body.company,
     status |-> IF body.status = Absent THEN customer.status ELSE body.status,
     createdAt |-> IF body.createdAt = Absent THEN customer.createdAt
                   ELSE body.createdAt,
     updatedAt |-> IF body.updatedAt = Absent THEN customer.updatedAt
                   ELSE body.updatedAt]

\* The record built by the update handler at clock reading t.
UpdatedCustomer(customer, body, t) ==
    [Spread(customer, body) EXCEPT !.updatedAt = toISOString(t)]

\* `customers[index] = updatedCustomer`
StoreAt(cs, index, customer) == [cs EXCEPT ![index] = customer]

\* The handler of PUT /api/customers/:id, run from its first to its last
\* line on one request.
UpdateHandler(id, body) ==
        LET index == FindIndexById(customers, id)
        IN  /\ req' = Request("PUT", id, body)
            /\ IF index = 0
               THEN /\ res' = Response(404, <<>>, Absent, Absent)
                    /\ UNCHANGED <<customers, customerCounter, now, allocated, removed>>
               ELSE IF /\ Truthy(body.email)
                       /\ body.email # customers[index].email
                       /\ FindOtherByEmail(customers, body.email, id) # 0
                    THEN /\ res' = Response(409, <<>>, Absent, Absent)
                         /\ UNCHANGED <<customers, customerCounter, now, allocated, removed>>
                    ELSE \E t \in now..MaxClock :
                            LET updatedCustomer ==
                                    UpdatedCustomer(customers[index], body, t)
                            IN  /\ customers' = StoreAt(customers, index, updatedCustomer)
                                /\ now' = t
                                /\ res' = Response(200, <<updatedCustomer>>, Absent, Absent)
                                /\ UNCHANGED <<customerCounter, allocated, removed>>

\* PUT /api/customers/:id
Update ==
    \E id \in PathIds, body \in Bodies :
        /\ Accept
        /\ UpdateHandler(id, body)

\* `customers.splice(index)`: without a count, everything from index on goes.
SpliceToEnd(cs, index) == SubSeq(cs, 1, index - 1)

\* `customers.splice(index, 1)`: the array without the element at index.
Splice(cs, index) ==
    [i \in 1..(Len(cs) - 1) |-> IF i < index THEN cs[i] ELSE cs[i + 1]]

\* The handler of DELETE /api/customers/:id, run from its first to its last
\* line on one request.
DeleteHandler(id) ==
        LET index == FindIndexById(customers, id)
        IN  /\ req' = Request("DELETE", id, EmptyBody)
            /\ IF index = 0
               THEN /\ res' = Response(404, <<>>, Absent, Absent)
                    /\ UNCHANGED <<customers, customerCounter, now, allocated, removed>>
               ELSE /\ customers' = Splice(customers, index)
                    /\ res' = Response(200, <<customers[index]>>, Absent, Absent)
                    /\ removed' = removed + 1
                    /\ UNCHANGED <<customerCounter, now, allocated>>

\* DELETE /api/customers/:id
Delete ==
    \E id \in PathIds :
        /\ Accept
        /\ DeleteHandler(id)

\* GET /api/customers/:id
Get ==
    \E id \in PathIds :
        LET index == FindIndexById(customers, id)
        IN  /\ Accept
            /\ req' = Request("GET", id, EmptyBody)
            /\ res' = IF index = 0
                      THEN Response(404, <<>>, Absent, id)
                      ELSE Response(200, <<customers[index]>>, Absent, Absent)
            /\ UNCHANGED <<customers, customerCounter, now, allocated, removed>>

\* The array back to front.
Reversed(cs) == [i \in 1..Len(cs) |-> cs[Len(cs) + 1 - i]]

\* `data: customers` of the list-all handler.
AllCustomers(cs) == cs

\* GET /api/customers
ListAll ==
    /\ Accept
    /\ req' = Request("GET", Absent, EmptyBody)
    /\ res' = ListResponse(AllCustomers(customers), Absent)
    /\ UNCHANGED <<customers, customerCounter, now, allocated, removed>>

\* A filter whose result is assigned back to the array.
AfterFilterInPlace(cs, kept) == kept

\* The receiver of Array.prototype.filter after the call: filter builds a
\* new array and leaves the receiver as it was.
AfterFilter(cs, kept) == cs

\* A status handler that returns the whole array.
FilterByStatusAll(cs, status) == cs

\* customers.filter(cust => cust.status === status)
FilterByStatus(cs, status) ==
    LET keep(cust) == cust.status = status
    IN  SelectSeq(cs, keep)

\* GET /api/customers/status/:status
ListByStatus ==
    \E status \in Statuses :
        /\ Accept
        /\ req' = Query(RouteStatus, status)
        /\ LET filteredCustomers == FilterByStatus(customers, status)
           IN  /\ res' = ListResponse(filteredCustomers, status)
               /\ customers' = AfterFilter(customers, filteredCustomers)
        /\ UNCHANGED <<customerCounter, now, allocated, removed>>

\* String.prototype.includes.
Includes(hay, needle) ==
    \E i \in 0..(Len(hay) - Len(needle)) :
        SubSeq(hay, i + 1, i + Len(needle)) = needle

\* A value on which `.toLowerCase()` can be called (a string).
IsString(v) == v # Null /\ v # Absent

\* Outcome of the search predicate on one customer, evaluated left to right
\* with the short circuit of `||` and `&&`: "throw" when toLowerCase is
\* called on a name or email that is not a string.
SearchTest(cust, query) ==
    IF ~IsString(cust.name) THEN "throw"
    ELSE IF Includes(toLowerCase(cust.name), toLowerCase(query)) THEN "true"
    ELSE IF ~IsString(cust.email) THEN "throw"
    ELSE IF Includes(toLowerCase(cust.email), toLowerCase(query)) THEN "true"
    ELSE IF Truthy(cust.company)
            /\ Includes(toLowerCase(cust.company), toLowerCase(query)) THEN "true"
    ELSE "false"

\* GET /api/customers/search/:query.  An exception of the filter callback
\* goes to the error handler, which answers 500.
Search ==
    \E query \in Queries :
        LET keep(cust) == SearchTest(cust, query) = "true"
            throws == \E i \in 1..Len(customers) :
                          SearchTest(customers[i], query) = "throw"
        IN  /\ Accept
            /\ req' = Query(RouteSearch, query)
            /\ IF throws
               THEN /\ res' = Response(500, <<>>, Absent, Absent)
                    /\ UNCHANGED customers
               ELSE LET searchResults == SelectSeq(customers, keep)
                    IN  /\ res' = ListResponse(searchResults, query)
                        /\ customers' = AfterFilter(customers, searchResults)
            /\ UNCHANGED <<customerCounter, now, allocated, removed>>

\* GET / (health check)
Health ==
    /\ Accept
    /\ req' = Query(RouteRoot, Absent)
    /\ res' = Response(200, <<>>, Absent, Absent)
    /\ UNCHANGED <<customers, customerCounter, now, allocated, removed>>

\* The 404 handler: a path no route matches, or a method no route has.
UnknownRoute ==
    \E method \in {"GET", "PATCH"} :
        /\ Accept
        /\ req' = [Query(RouteUnknown, Absent) EXCEPT !.method = method]
        /\ res' = Response(404, <<>>, Absent, Absent)
        /\ UNCHANGED <<customers, customerCounter, now, allocated, removed>>

Next ==
    \/ Create \/ Update \/ Delete \/ Get \/ ListAll \/ ListByStatus \/ Search
    \/ Health \/ UnknownRoute

Spec == Init /\ [][Next]_vars

(* ------------------- several requests in flight at once ----------------- *)

\* The bodies of the requests that overlap: two customers whose emails
\* differ in case only.
OverlapBodies ==
    { [EmptyBody EXCEPT !.name = Al, !.email = MailLower, !.phone = <<"1">>,
                        !.address = <<"S", "t">>, !.company = <<"C", "o">>,
                        !.status = Inactive],
      [EmptyBody EXCEPT !.name = Bo, !.email = MailUpper, !.phone = <<>>] }

\* The requests a client may send while others are in flight.
OverlapRequests ==
    {Request("POST", Absent, body) : body \in OverlapBodies}
        \cup {Request("PUT", id, body) : id \in PathIds, body \in OverlapBodies}
        \cup {Request("DELETE", id, EmptyBody) : id \in PathIds}

\* Number of requests that have arrived and are not answered yet.
Reading == Cardinality({c \in Conns : inflight[c].phase = "reading"})

\* A request arrives on a free connection (the lowest one: connections are
\* interchangeable): express.json() starts to read its body, which takes any
\* number of turns of the event loop.  `since` notes how many requests had
\* been answered when it arrived.
Arrive ==
    \E c \in Conns :
        /\ inflight[c].phase # "reading"
        /\ \A d \in 1..(c - 1) : inflight[d].phase = "reading"
        /\ handled + Reading < MaxOverlap
        /\ \E r \in OverlapRequests :
              inflight' = [inflight EXCEPT
                              ![c] = [req |-> r, since |-> handled, phase |-> "reading"]]
        /\ UNCHANGED <<customers, customerCounter, now, req, res, allocated, handled,
                       removed>>

\* The body of the request on connection c has been read: its handler is
\* called and answers.  The bodies in flight finish in any order.  The
\* connection shows the request it has answered last, as req and res do,
\* until the server answers another one.
Answer(c) ==
    /\ inflight[c].phase = "reading"
    /\ handled' = handled + 1
    /\ inflight' = [d \in Conns |->
                        IF d = c THEN [inflight[c] EXCEPT !.phase = "answered"]
                        ELSE IF inflight[d].phase = "answered" THEN Idle
                        ELSE inflight[d]]

ServeCreate ==
    \E c \in Conns :
        /\ inflight[c].req.method = "POST"
        /\ Answer(c)
        /\ CreateHandler(inflight[c].req.body)

ServeUpdate ==
    \E c \in Conns :
        /\ inflight[c].req.method = "PUT"
        /\ Answer(c)
        /\ UpdateHandler(inflight[c].req.id, inflight[c].req.body)

ServeDelete ==
    \E c \in Conns :
        /\ inflight[c].req.method = "DELETE"
        /\ Answer(c)
        /\ DeleteHandler(inflight[c].req.id)

NextOverlap == Arrive \/ ServeCreate \/ ServeUpdate \/ ServeDelete

SpecOverlap == Init /\ [][NextOverlap]_vars

(* ======================= properties of the server ====================== *)

\* The value of a string of decimal digits.
RECURSIVE ParseDec(_)
ParseDec(s) == IF s = <<>> THEN 0
               ELSE 10 * ParseDec(SubSeq(s, 1, Len(s) - 1)) + DigitVal(s[Len(s)])

\* Position of the last "-" of a generated id.
LastDash(id) == CHOOSE i \in 1..Len(id) :
                    id[i] = "-" /\ \A j \in (i + 1)..Len(id) : id[j] # "-"

\* The counter part and the timestamp part of a generated id.
CounterPart(id) == ParseDec(SubSeq(id, LastDash(id) + 1, Len(id)))
TimestampPart(id) == ParseDec(SubSeq(id, 6, LastDash(id) - 1))

\* The last request was answered with the given status.
Answered(method, status) == req.method = method /\ res.status = status

\* C1: no two distinct records of the store hold the same email value.
C1_EmailUnique ==
    \A i, j \in 1..Len(customers) :
        i # j => customers[i].email # customers[j].email

\* C2: no two records of the store have the same id.
C2_IdUnique ==
    \A i, j \in 1..Len(customers) :
        i # j => customers[i].id # customers[j].id

\* C3: every id allocated by a successful create differs from every id
\* allocated earlier, deleted or not: the counter part strictly increases
\* from one create to the next and stays below the live counter, whatever
\* the timestamp parts are.
C3_AllocatedIdsFresh ==
    /\ \A i, j \in 1..Len(allocated) :
          i < j => /\ allocated[i] # allocated[j]
                   /\ CounterPart(allocated[i]) < CounterPart(allocated[j])
    /\ \A i \in 1..Len(allocated) : CounterPart(allocated[i]) < customerCounter

\* C3 witness: two creates in the same millisecond, the first customer
\* deleted in between.
C3_Witness ==
    /\ Len(allocated) = 2
    /\ Len(customers) = 1
    /\ customers[1].id = allocated[2]
    /\ TimestampPart(allocated[1]) = TimestampPart(allocated[2])

\* C4: a successful update leaves the id and the createdAt of the targeted
\* record as they were, whatever the body supplies.
C4_UpdateKeepsIdAndCreatedAt ==
    [][(req'.method = "PUT" /\ res'.status = 200) =>
          LET i == FindIndexById(customers, req'.id)
          IN  /\ customers'[i].id = customers[i].id
              /\ customers'[i].createdAt = customers[i].createdAt]_vars

\* C5: a create whose name or email is missing or empty is answered 400 and
\* leaves the store and the counter as they were.
C5_CreateInvalidRejected ==
    [][(/\ req'.method = "POST"
        /\ \/ req'.body.name \in {Absent, Null, <<>>}
           \/ req'.body.email \in {Absent, Null, <<>>}) =>
          /\ res'.status = 400
          /\ customers' = customers
          /\ customerCounter' = customerCounter]_vars

\* C5 witness: a create with an empty name was answered 400 by a server
\* that holds a customer.
C5_Witness ==
    /\ Answered("POST", 400)
    /\ req.body.name = <<>>
    /\ req.body.email = MailLower
    /\ Len(customers) > 0

\* C6: a create with non-empty name and email is answered 409 exactly when
\* a record of the store has the identical email string; the response then
\* carries the id of a record holding that email, and the store and the
\* counter are as they were.
C6_CreateConflict ==
    [][(/\ req'.method = "POST"
        /\ req'.body.name \notin {Absent, Null, <<>>}
        /\ req'.body.email \notin {Absent, Null, <<>>}) =>
          LET holders == {i \in 1..Len(customers) :
                              customers[i].email = req'.body.email}
          IN  /\ (res'.status = 409) <=> (holders # {})
              /\ (res'.status = 409) =>
                    /\ \E i \in holders : res'.existingCustomerId = customers[i].id
                    /\ customers' = customers
                    /\ customerCounter' = customerCounter]_vars

\* C6 witness: a create was answered 409 although the store also holds the
\* same email in another case.
C6_Witness ==
    /\ Answered("POST", 409)
    /\ Len(customers) = 2
    /\ req.body.email = customers[2].email
    /\ res.existingCustomerId = customers[2].id
    /\ toLowerCase(customers[1].email) = toLowerCase(customers[2].email)

\* The optional field of a new record as C7 states it: the supplied value,
\* or null when the body has none.
SuppliedOrNull(v) == IF v = Absent THEN Null ELSE v

\* C7 as stated: a successful create appends one record and leaves the
\* others alone; the record has the supplied name and email, status
\* "active", and phone, address and company equal to the supplied value or
\* null when not supplied; the record returned is the record stored.
C7_CreateAppendsAsStated ==
    [][(req'.method = "POST" /\ res'.status = 201) =>
          /\ Len(customers') = Len(customers) + 1
          /\ SubSeq(customers', 1, Len(customers)) = customers
          /\ LET c == customers'[Len(customers')]
             IN  /\ c.name = req'.body.name
                 /\ c.email = req'.body.email
                 /\ c.status = Active
                 /\ c.phone = SuppliedOrNull(req'.body.phone)
                 /\ c.address = SuppliedOrNull(req'.body.address)
                 /\ c.company = SuppliedOrNull(req'.body.company)
                 /\ res'.customer = <<c>>]_vars

\* The optional field of a new record as the server fills it: the supplied
\* value when it is a non-empty string, null when it is missing, null or
\* empty.
NonEmptyOrNull(v) == IF v \in {Absent, Null, <<>>} THEN Null ELSE v

\* C7 amended: as C7, with phone, address and company equal to the supplied
\* value when it is non-empty and null when it is missing, null or empty.
C7_CreateAppends ==
    [][(req'.method = "POST" /\ res'.status = 201) =>
          /\ Len(customers') = Len(customers) + 1
          /\ SubSeq(customers', 1, Len(customers)) = customers
          /\ LET c == customers'[Len(customers')]
             IN  /\ c.name = req'.body.name
                 /\ c.email = req'.body.email
                 /\ c.status = Active
                 /\ c.phone = NonEmptyOrNull(req'.body.phone)
                 /\ c.address = NonEmptyOrNull(req'.body.address)
                 /\ c.company = NonEmptyOrNull(req'.body.company)
                 /\ res'.customer = <<c>>]_vars

\* C7 witness: a create that supplied a status and the optional fields was
\* answered 201 by a server that already held a customer.
C7_Witness ==
    /\ Answered("POST", 201)
    /\ Len(customers) = 2
    /\ req.body.status = Inactive
    /\ req.body.phone = <<"1">>
    /\ customers[2].phone = <<"1">>
    /\ customers[2].status = Active

\* C8: right after a successful create the new record's createdAt equals
\* its updatedAt.
C8_CreateStampsEqual ==
    Answered("POST", 201) =>
        customers[Len(customers)].createdAt = customers[Len(customers)].updatedAt

\* C9: every record of the store has createdAt <= updatedAt.
C9_CreatedBeforeUpdated ==
    \A i \in 1..Len(customers) :
        ParseISO(customers[i].createdAt) <= ParseISO(customers[i].updatedAt)

\* C10: a successful update changes, in the targeted record, only the
\* fields the body supplies and updatedAt; the record keeps its position,
\* every other record is as it was, and the record returned is the record
\* stored.
C10_UpdateFrame ==
    [][(req'.method = "PUT" /\ res'.status = 200) =>
          LET i == FindIndexById(customers, req'.id)
          IN  /\ Len(customers') = Len(customers)
              /\ \A j \in 1..Len(customers) :
                    j # i => customers'[j] = customers[j]
              /\ \A k \in Keys \ {"updatedAt"} :
                    req'.body[k] = Absent => customers'[i][k] = customers[i][k]
              /\ res'.customer = <<customers'[i]>>]_vars

\* C10 witness: an update that supplied the name alone was answered 200 for
\* the second of two customers, which still has its phone.
C10_Witness ==
    /\ Answered("PUT", 200)
    /\ Len(customers) = 2
    /\ req.id = customers[2].id
    /\ req.id # customers[1].id
    /\ req.body = [EmptyBody EXCEPT !.name = Bo]
    /\ customers[2].name = Bo
    /\ customers[2].phone = <<"1">>

\* C11: an update of an existing record that supplies an email other than
\* the record's own is answered 409 whenever another record (of another id)
\* holds that email, and the store is then as it was; an update that
\* supplies the record's own email is never answered 409.
C11_UpdateConflict ==
    [][(req'.method = "PUT" /\ \E i \in 1..Len(customers) : customers[i].id = req'.id) =>
          LET i == FindIndexById(customers, req'.id)
              e == req'.body.email
          IN  /\ (/\ e # Absent
                  /\ e # customers[i].email
                  /\ \E j \in 1..Len(customers) :
                        customers[j].email = e /\ customers[j].id # req'.id)
                    => (res'.status = 409 /\ customers' = customers)
              /\ (e = customers[i].email) => res'.status # 409]_vars

\* C12: a successful delete removes exactly one record, one with the
\* requested id: the size goes down by 1, the other records stay as they
\* were and in the same order, the counter is unchanged, and the response
\* carries the removed record as the store held it.
C12_DeleteFrame ==
    [][(req'.method = "DELETE" /\ res'.status = 200) =>
          \E i \in 1..Len(customers) :
              /\ customers[i].id = req'.id
              /\ Len(customers') = Len(customers) - 1
              /\ \A j \in 1..(i - 1) : customers'[j] = customers[j]
              /\ \A j \in (i + 1)..Len(customers) : customers'[j - 1] = customers[j]
              /\ customerCounter' = customerCounter
              /\ res'.customer = <<customers[i]>>]_vars

\* C12 witness: the first of two customers was deleted and the second one
\* is what the store holds.
C12_Witness ==
    /\ Answered("DELETE", 200)
    /\ Len(allocated) = 2
    /\ req.id = allocated[1]
    /\ Len(customers) = 1
    /\ customers[1].id = allocated[2]
    /\ res.customer[1].id = allocated[1]

\* C13: once a delete of an id has succeeded, a get, update or delete on
\* that id is answered 404.  The three handlers answer 404 exactly when
\* their lookup finds no record of that id, so the claim is stated on the
\* store right after the delete.
C13_DeletedIdGone ==
    [][(req'.method = "DELETE" /\ res'.status = 200) =>
          \A i \in 1..Len(customers') : customers'[i].id # req'.id]_vars

\* C14: a get, update or delete on an id that no record has is answered
\* 404 (the get carries the requested id), and the store and the counter are
\* as they were, whatever the body.
C14_UnknownIdNotFound ==
    [][(/\ req'.route = RouteOne
        /\ \A i \in 1..Len(customers) : customers[i].id # req'.id) =>
          /\ res'.status = 404
          /\ (req'.method = "GET" => res'.requestedId = req'.id)
          /\ customers' = customers
          /\ customerCounter' = customerCounter]_vars

\* C14 witness: an update with a name in the body was answered 404 for the
\* id of a deleted customer while the store holds another one.
C14_Witness ==
    /\ Answered("PUT", 404)
    /\ Len(allocated) = 2
    /\ req.id = allocated[1]
    /\ req.body.name = Bo
    /\ Len(customers) = 1

\* C15: every record of the store has all its fields, with name and email
\* non-empty strings.
C15_RecordsWellFormed ==
    \A i \in 1..Len(customers) :
        /\ \A k \in Keys : customers[i][k] # Absent
        /\ customers[i].name \notin {Null, <<>>}
        /\ customers[i].email \notin {Null, <<>>}

\* C16: a search is answered with success (200), never with an error.
C16_SearchSucceeds ==
    req.route = RouteSearch => res.status = 200

\* The query is, without regard to case, a substring of the value.
HoldsQuery(v, query) ==
    /\ v \notin {Null, Absent}
    /\ \E i \in 0..(Len(v) - Len(query)) :
          toLowerCase(SubSeq(v, i + 1, i + Len(query))) = toLowerCase(query)

\* C17: a search returns exactly the records, in store order, whose name,
\* email or non-null company holds the query without regard to case; count
\* is the number of records returned and the query is echoed.
C17_SearchResult ==
    req.route = RouteSearch =>
        LET match(cust) == \/ HoldsQuery(cust.name, req.param)
                           \/ HoldsQuery(cust.email, req.param)
                           \/ HoldsQuery(cust.company, req.param)
        IN  /\ res.data = SelectSeq(customers, match)
            /\ res.count = Len(res.data)
            /\ res.echo = req.param

\* C18: list-by-status succeeds and returns exactly the records, in store
\* order, whose status is the requested string, with their number as count
\* and the requested status echoed; count 0 and an empty list for a status
\* that no record has.
C18_ListByStatusResult ==
    req.route = RouteStatus =>
        LET same(cust) == cust.status = req.param
        IN  /\ res.status = 200
            /\ res.data = SelectSeq(customers, same)
            /\ res.count = Len(res.data)
            /\ res.echo = req.param
            /\ (\A i \in 1..Len(customers) : customers[i].status # req.param)
                  => (res.count = 0 /\ res.data = <<>>)

\* C18 witness: of two customers, the second alone has the requested
\* status and is the one returned.
C18_Witness ==
    /\ req.route = RouteStatus
    /\ req.param = Inactive
    /\ Len(customers) = 2
    /\ customers[1].status = Active
    /\ res.count = 1
    /\ res.data = <<customers[2]>>

\* C19: list-all succeeds and returns every record of the store with their
\* number as count (0 for an empty store); the store keeps the surviving
\* records in the order of their creation: a step leaves the array as it
\* was, appends one record at its end, replaces one record in place, or
\* removes one record and keeps the others in order.
C19_ListAllInOrder ==
    [][/\ (req'.method = "GET" /\ req'.route = RouteAll) =>
            /\ res'.status = 200
            /\ res'.data = customers
            /\ res'.count = Len(customers)
            /\ (customers = <<>> => res'.count = 0)
       /\ \/ customers' = customers
          \/ /\ Len(customers') = Len(customers) + 1
             /\ SubSeq(customers', 1, Len(customers)) = customers
          \/ /\ Len(customers') = Len(customers)
             /\ \E i \in 1..Len(customers) :
                   \A j \in 1..Len(customers) : j # i => customers'[j] = customers[j]
          \/ /\ Len(customers') = Len(customers) - 1
             /\ \E i \in 1..Len(customers) :
                   /\ \A j \in 1..(i - 1) : customers'[j] = customers[j]
                   /\ \A j \in (i + 1)..Len(customers) :
                         customers'[j - 1] = customers[j]]_vars

\* C19 witness: list-all returned two customers in the order of their
\* creation after the first one was updated.
C19_Witness ==
    /\ req.method = "GET"
    /\ req.route = RouteAll
    /\ res.count = 2
    /\ res.data[1].id = allocated[1]
    /\ res.data[2].id = allocated[2]
    /\ res.data[1].name = Bo
    /\ res.data[1].email = MailLower

\* C20: a get on the id returned by a successful create or update, sent
\* right after it, is answered 200 with the record that create or update
\* returned.
C20_ReadYourWrites ==
    [][(/\ req.method \in {"POST", "PUT"}
        /\ res.status \in {200, 201}
        /\ req'.method = "GET"
        /\ req'.route = RouteOne
        /\ req'.id = res.customer[1].id) =>
          /\ res'.status = 200
          /\ res'.customer = res.customer]_vars

\* C22: the id counter is 1 plus the number of successful creates, and the
\* store holds as many records as creates succeeded less deletes succeeded;
\* a request answered 400, 404 or 409 takes no counter value.
C22_Accounting ==
    /\ customerCounter = 1 + Len(allocated)
    /\ Len(customers) = Len(allocated) - removed

\* C22 witness: two creates and a delete succeeded and a create was then
\* answered 409.
C22_Witness ==
    /\ Answered("POST", 409)
    /\ Len(allocated) = 2
    /\ removed = 1
    /\ customerCounter = 3

\* C23: the health check, list-all, get-by-id, list-by-status, search and a
\* request on an unknown route leave the records, their order and the id
\* counter as they were.
C23_ReadsChangeNothing ==
    [][(\/ req'.route \in {RouteRoot, RouteUnknown, RouteStatus, RouteSearch}
        \/ (req'.method = "GET" /\ req'.route \in {RouteAll, RouteOne})) =>
          /\ customers' = customers
          /\ customerCounter' = customerCounter]_vars

\* C23 witness: a search that selects the second of two customers was
\* answered and both are still in the store.
C23_Witness ==
    /\ req.route = RouteSearch
    /\ res.status = 200
    /\ Len(customers) = 2
    /\ res.data = <<customers[2]>>

\* The step runs the whole handler of one request that was in flight, on the
\* store as the step found it.
SerialStep ==
    \E c \in Conns :
        /\ inflight[c].phase = "reading"
        /\ LET r == inflight[c].req
           IN  \/ r.method = "POST" /\ CreateHandler(r.body)
               \/ r.method = "PUT" /\ UpdateHandler(r.id, r.body)
               \/ r.method = "DELETE" /\ DeleteHandler(r.id)

\* C21: with several requests in flight, a request that arrives or waits for
\* its body changes nothing, and every change of the store is the whole
\* handler of one request in flight, run on the store as it stands: the
\* reachable states are those of the requests answered one after another.
\* A create succeeds only when no record holds its email at that moment and
\* is answered 409, storing nothing, when one does: of two overlapping
\* creates with the same email the one served second is rejected.
C21_RequestsSerial ==
    [][/\ (handled' = handled) =>
             UNCHANGED <<customers, customerCounter, now, req, res, allocated, removed>>
       /\ (handled' # handled) => SerialStep
       /\ (handled' # handled /\ req'.method = "POST" /\ res'.status = 201) =>
             /\ \A i \in 1..Len(customers) : customers[i].email # req'.body.email
             /\ customers' = Append(customers, res'.customer[1])
       /\ (/\ handled' # handled
           /\ req'.method = "POST"
           /\ \E i \in 1..Len(customers) : customers[i].email = req'.body.email) =>
             /\ res'.status = 409
             /\ customers' = customers
             /\ customerCounter' = customerCounter]_vars

\* C21 witness: two creates with the same email were in flight before either
\* was answered; the first one served is stored, the second has just been
\* answered 409.
C21_Witness ==
    \E c \in Conns :
        /\ inflight[c].phase = "answered"
        /\ inflight[c].req.method = "POST"
        /\ inflight[c].since = 0
        /\ handled = 2
        /\ Answered("POST", 409)
        /\ Len(allocated) = 1
        /\ Len(customers) = 1
        /\ customers[1].email = inflight[c].req.body.email

====
